---- MODULE Spec2Model ----
\* Model of src/main.py: the macOS software inventory script.
\*   index mode   : get_installed_apps / get_brew_packages / get_brew_casks
\*                  collect three lists and run_index_mode writes them to a
\*                  flat text file of three headered sections;
\*   restore mode : run_restore_mode parses such a file, lets the user filter
\*                  formulae and casks in a Tkinter checklist, drives
\*                  "brew install" per item and lists the applications.
\* Python strings are sequences of one-character strings, so that strip(),
\* startswith(), "in", split(), replace() and sorted() are computed as the
\* interpreter computes them.
EXTENDS Integers, Sequences, FiniteSets

VARIABLES
  pc,                 \* position of the running process, "shell" when none runs
  mode,               \* mode chosen by main(): "none", "index", "restore"
  exit,               \* how the last process ended: "none", "returned", "uncaught"
  runs,               \* number of processes started so far
  argv,               \* the --restore argument of the last process, <<>> without one
  TKINTER_AVAILABLE,  \* module flag set by the import at lines 7-13
  file,               \* content of the inventory file on disk, or NoFile
  report,             \* run_index_mode locals (installed_apps, brew_formulae, brew_casks)
  apps,               \* run_restore_mode local
  formulae,           \* run_restore_mode local
  casks,              \* run_restore_mode local
  title,              \* which list the open selection window is for
  checkboxes,         \* select_items_with_tkinter local `vars`: <<item, BooleanVar>>
  toggles,            \* number of checkbox clicks so far in this process
  idx,                \* position of the running install loop
  log                 \* everything the process did that is visible outside it

vars == <<pc, mode, exit, runs, argv, TKINTER_AVAILABLE, file, report, apps, formulae,
          casks, title, checkboxes, toggles, idx, log>>

-----------------------------------------------------------------------------
\* Bounds of the model

\* processes started one after the other on the same machine
MaxRuns == 2
\* checkbox clicks in the selection windows of one process
MaxToggles == 2
\* longest package list of a report drawn for the serializer/parser round trip
MaxNames == 2
\* longest file (in lines) drawn for the parser
MaxFileLines == 5

-----------------------------------------------------------------------------
\* String literals of the source

\* "### macOS Installed Applications ###"
HeaderApps ==
  <<"#", "#", "#", " ", "m", "a", "c", "O", "S", " ", "I", "n", "s", "t", "a", "l",
    "l", "e", "d", " ", "A", "p", "p", "l", "i", "c", "a", "t", "i", "o", "n", "s",
    " ", "#", "#", "#">>

\* "### Homebrew Formulae ###"
HeaderFormulae ==
  <<"#", "#", "#", " ", "H", "o", "m", "e", "b", "r", "e", "w", " ", "F", "o", "r",
    "m", "u", "l", "a", "e", " ", "#", "#", "#">>

\* "### Homebrew Casks ###"
HeaderCasks ==
  <<"#", "#", "#", " ", "H", "o", "m", "e", "b", "r", "e", "w", " ", "C", "a", "s",
    "k", "s", " ", "#", "#", "#">>

\* "No applications found in /Applications or ~/Applications."
SentinelApps ==
  <<"N", "o", " ", "a", "p", "p", "l", "i", "c", "a", "t", "i", "o", "n", "s", " ",
    "f", "o", "u", "n", "d", " ", "i", "n", " ", "/", "A", "p", "p", "l", "i", "c",
    "a", "t", "i", "o", "n", "s", " ", "o", "r", " ", "~", "/", "A", "p", "p", "l",
    "i", "c", "a", "t", "i", "o", "n", "s", ".">>

\* "Homebrew not found or no formulae installed."
SentinelFormulae ==
  <<"H", "o", "m", "e", "b", "r", "e", "w", " ", "n", "o", "t", " ", "f", "o", "u",
    "n", "d", " ", "o", "r", " ", "n", "o", " ", "f", "o", "r", "m", "u", "l", "a",
    "e", " ", "i", "n", "s", "t", "a", "l", "l", "e", "d", ".">>

\* "Homebrew not found or no casks installed."
SentinelCasks ==
  <<"H", "o", "m", "e", "b", "r", "e", "w", " ", "n", "o", "t", " ", "f", "o", "u",
    "n", "d", " ", "o", "r", " ", "n", "o", " ", "c", "a", "s", "k", "s", " ", "i",
    "n", "s", "t", "a", "l", "l", "e", "d", ".">>

\* "macOS Installed Applications"
MarkerApps ==
  <<"m", "a", "c", "O", "S", " ", "I", "n", "s", "t", "a", "l", "l", "e", "d", " ",
    "A", "p", "p", "l", "i", "c", "a", "t", "i", "o", "n", "s">>

\* "Homebrew Formulae"
MarkerFormulae ==
  <<"H", "o", "m", "e", "b", "r", "e", "w", " ", "F", "o", "r", "m", "u", "l", "a",
    "e">>

\* "Homebrew Casks"
MarkerCasks ==
  <<"H", "o", "m", "e", "b", "r", "e", "w", " ", "C", "a", "s", "k", "s">>

\* "No "
PrefixNo ==
  <<"N", "o", " ">>

\* "Homebrew not found"
PrefixHomebrewNotFound ==
  <<"H", "o", "m", "e", "b", "r", "e", "w", " ", "n", "o", "t", " ", "f", "o", "u",
    "n", "d">>

\* "###"
HeaderPrefix ==
  <<"#", "#", "#">>

\* ".app"
DotApp ==
  <<".", "a", "p", "p">>

-----------------------------------------------------------------------------
\* Python string operations

NL == "\n"

\* characters str.strip() removes
Whitespace == {" ", "\n", "\t", "\r"}

\* code points of the characters that occur in application names (sorted())
ord(c) ==
  CASE c = "\n" -> 10 [] c = " " -> 32 [] c = "#" -> 35 [] c = "." -> 46
    [] c = "N" -> 78 [] c = "a" -> 97 [] c = "b" -> 98 [] c = "n" -> 110
    [] c = "o" -> 111 [] c = "p" -> 112 [] c = "t" -> 116 [] c = "x" -> 120

startswith(s, p) == Len(s) >= Len(p) /\ SubSeq(s, 1, Len(p)) = p

endswith(s, p) == Len(s) >= Len(p) /\ SubSeq(s, Len(s) - Len(p) + 1, Len(s)) = p

\* p in s
contains(s, p) == \E k \in 1..(Len(s) - Len(p) + 1) : SubSeq(s, k, k + Len(p) - 1) = p

RECURSIVE lstrip(_)
lstrip(s) == IF s # <<>> /\ Head(s) \in Whitespace THEN lstrip(Tail(s)) ELSE s

RECURSIVE rstrip(_)
rstrip(s) ==
  IF s # <<>> /\ s[Len(s)] \in Whitespace THEN rstrip(SubSeq(s, 1, Len(s) - 1)) ELSE s

strip(s) == rstrip(lstrip(s))

\* position of the first c in s, 0 when there is none
find(s, c) ==
  IF \E k \in 1..Len(s) : s[k] = c
  THEN CHOOSE k \in 1..Len(s) : s[k] = c /\ \A j \in 1..(k - 1) : s[j] # c
  ELSE 0

\* s.split(c)
RECURSIVE split(_, _)
split(s, c) ==
  LET k == find(s, c)
  IN  IF k = 0 THEN <<s>>
      ELSE <<SubSeq(s, 1, k - 1)>> \o split(SubSeq(s, k + 1, Len(s)), c)

\* s.replace(old, new), old not empty
RECURSIVE replace(_, _, _)
replace(s, old, new) ==
  IF s = <<>> THEN <<>>
  ELSE IF startswith(s, old)
       THEN new \o replace(SubSeq(s, Len(old) + 1, Len(s)), old, new)
       ELSE <<Head(s)>> \o replace(Tail(s), old, new)

\* a < b on str: lexicographic by code point
RECURSIVE str_less(_, _)
str_less(a, b) ==
  IF b = <<>> THEN FALSE
  ELSE IF a = <<>> THEN TRUE
  ELSE IF Head(a) = Head(b) THEN str_less(Tail(a), Tail(b))
  ELSE ord(Head(a)) < ord(Head(b))

\* sorted(list(S)) for a set S of str
RECURSIVE sorted(_)
sorted(S) ==
  IF S = {} THEN <<>>
  ELSE LET m == CHOOSE x \in S : \A y \in S \ {x} : str_less(x, y)
       IN  <<m>> \o sorted(S \ {m})

\* the lines a text-mode file object yields, each with its terminator
RECURSIVE readlines(_)
readlines(content) ==
  LET k == find(content, NL)
  IN  IF content = <<>> THEN <<>>
      ELSE IF k = 0 THEN <<content>>
      ELSE <<SubSeq(content, 1, k)>> \o readlines(SubSeq(content, k + 1, Len(content)))

\* the members of a list
Range(s) == {s[k] : k \in 1..Len(s)}

\* [x for x in s if keep(x)]
RECURSIVE SelectChecked(_)
SelectChecked(vs) ==
  IF vs = <<>> THEN <<>>
  ELSE (IF Head(vs)[2] THEN <<Head(vs)[1]>> ELSE <<>>) \o SelectChecked(Tail(vs))

-----------------------------------------------------------------------------
\* Inventory collector (index mode)

\* get_installed_apps: listing[d] is the state of app_dirs[d], its os.path.isdir
\* and the set of names os.listdir returns
get_installed_apps(listing) ==
  LET found(d) ==
        IF ~listing[d].isdir THEN {}
        ELSE {replace(e, DotApp, <<>>) : e \in {x \in listing[d].entries : endswith(x, DotApp)}}
  IN  sorted(UNION {found(d) : d \in 1..Len(listing)})

\* what subprocess.run(..., check=True) can do
RunOutcomes == {"ok", "CalledProcessError", "FileNotFoundError", "PermissionError"}

\* the exceptions the try blocks around subprocess.run name
Caught == {"CalledProcessError", "FileNotFoundError"}

\* get_brew_packages: result of ["brew", "list", "--formula"]
get_brew_packages(result) ==
  IF result.outcome = "ok" THEN split(strip(result.stdout), NL) ELSE <<>>

\* get_brew_casks: result of ["brew", "list", "--cask"]
get_brew_casks(result) ==
  IF result.outcome = "ok" THEN split(strip(result.stdout), NL) ELSE <<>>

-----------------------------------------------------------------------------
\* Report serializer (run_index_mode, the with-block)

\* the names written without their line terminators
RECURSIVE write_each_Unterminated(_)
write_each_Unterminated(names) ==
  IF names = <<>> THEN <<>> ELSE Head(names) \o write_each_Unterminated(Tail(names))

\* for x in names: f.write(f"{x}\n")
RECURSIVE write_each(_)
write_each(names) ==
  IF names = <<>> THEN <<>> ELSE Head(names) \o <<NL>> \o write_each(Tail(names))

\* body of one section: the names when the list is truthy, the sentinel otherwise
section_body(names, sentinel) ==
  IF names # <<>> THEN write_each(names) ELSE sentinel \o <<NL>>

write_report(installed_apps, brew_formulae, brew_casks) ==
  HeaderApps \o <<NL>> \o section_body(installed_apps, SentinelApps)
    \o <<NL>> \o HeaderFormulae \o <<NL>> \o section_body(brew_formulae, SentinelFormulae)
    \o <<NL>> \o HeaderCasks \o <<NL>> \o section_body(brew_casks, SentinelCasks)

-----------------------------------------------------------------------------
\* Report parser (run_restore_mode, lines 145-171)

ParseStart == [current_section |-> "None", apps |-> <<>>, formulae |-> <<>>, casks |-> <<>>]

\* a header that names no section closes the current one
parse_line_Reset(st, raw) ==
  LET line == strip(raw)
  IN  IF line = <<>> THEN st
      ELSE IF startswith(line, HeaderPrefix)
      THEN [st EXCEPT !.current_section =
              IF contains(line, MarkerApps) THEN "apps"
              ELSE IF contains(line, MarkerFormulae) THEN "formulae"
              ELSE IF contains(line, MarkerCasks) THEN "casks"
              ELSE "None"]
      ELSE IF st.current_section # "None" /\ ~startswith(line, PrefixNo)
              /\ ~startswith(line, PrefixHomebrewNotFound)
      THEN IF st.current_section = "apps" THEN [st EXCEPT !.apps = Append(@, line)]
           ELSE IF st.current_section = "formulae"
           THEN [st EXCEPT !.formulae = Append(@, line)]
           ELSE [st EXCEPT !.casks = Append(@, line)]
      ELSE st

\* the section a header line selects, "None" when it names none
header_section(line) ==
  IF contains(line, MarkerApps) THEN "apps"
  ELSE IF contains(line, MarkerFormulae) THEN "formulae"
  ELSE IF contains(line, MarkerCasks) THEN "casks"
  ELSE "None"

\* one iteration of `for line in f`
parse_line(st, raw) ==
  LET line == strip(raw)
  IN  IF line = <<>> THEN st
      ELSE IF startswith(line, HeaderPrefix)
      THEN IF header_section(line) # "None"
           THEN [st EXCEPT !.current_section = header_section(line)]
           ELSE st
      ELSE IF st.current_section # "None" /\ ~startswith(line, PrefixNo)
              /\ ~startswith(line, PrefixHomebrewNotFound)
      THEN IF st.current_section = "apps" THEN [st EXCEPT !.apps = Append(@, line)]
           ELSE IF st.current_section = "formulae"
           THEN [st EXCEPT !.formulae = Append(@, line)]
           ELSE [st EXCEPT !.casks = Append(@, line)]
      ELSE st

RECURSIVE parse_lines(_, _)
parse_lines(st, lines) ==
  IF lines = <<>> THEN st ELSE parse_lines(parse_line(st, Head(lines)), Tail(lines))

parse_file(content) == parse_lines(ParseStart, readlines(content))

-----------------------------------------------------------------------------
\* Inputs the environment supplies

\* directory entries and names
a_app == <<"a", ".", "a", "p", "p">>
b_app == <<"b", ".", "a", "p", "p">>
n_txt == <<"n", ".", "t", "x", "t">>
wget == <<"w", "g", "e", "t">>
git == <<"g", "i", "t">>

\* state of one of the two application directories
DirChoices ==
  { [isdir |-> TRUE, entries |-> {}],
    [isdir |-> TRUE, entries |-> {b_app, a_app, n_txt}] }

\* <<system-wide directory, user directory>>
DirListings ==
  {<<s, u>> : s \in DirChoices,
              u \in {[isdir |-> FALSE, entries |-> {}], [isdir |-> TRUE, entries |-> {a_app}]}}

\* what "brew list" prints when it exits 0
BrewStdouts == { <<>>, <<"a", NL, "b", NL>> }

BrewListResults ==
  {[outcome |-> "ok", stdout |-> s] : s \in BrewStdouts}
    \cup {[outcome |-> o, stdout |-> <<>>] : o \in RunOutcomes \ {"ok"}}

\* inventory files a user may hand to restore mode
SampleApps == { <<>>, << <<"a">>, <<"x">> >> }
SampleFormulae == { <<>>, << <<"a">>, <<"b">>, <<"c">> >>, << <<"a">>, <<"a">> >> }
SampleCasks == { <<>>, << <<"c">>, <<"x">> >> }

\* the end-to-end example: two formulae, a sentinel for the casks
ExampleFile ==
  HeaderFormulae \o <<NL>> \o wget \o <<NL>> \o git \o <<NL, NL>> \o HeaderCasks \o <<NL>>
    \o <<"N", "o", " ", "H", "o", "m", "e", "b", "r", "e", "w", ".", ".", ".", " ", NL>>

\* sections in another order, a line before the first header, padded names
ReorderedFile ==
  <<"j", NL>> \o HeaderCasks \o <<NL, " ", "c", " ", NL>> \o HeaderApps \o <<NL, "x", NL>>

UserFiles ==
  {write_report(a, f, c) : a \in SampleApps, f \in SampleFormulae, c \in SampleCasks}
    \cup {ExampleFile, ReorderedFile}

InventoryPath == "macos_installed_software.txt"
Paths == {InventoryPath, "/nonexistent/path"}

Absent == [isfile |-> FALSE, content |-> <<>>]
Present(content) == [isfile |-> TRUE, content |-> content]

NoReport == [apps |-> <<>>, formulae |-> <<>>, casks |-> <<>>]

\* one externally visible event
Ev(ev, what, arg, res) == [ev |-> ev, what |-> what, arg |-> arg, res |-> res]
Say(what, arg) == Ev("print", what, arg, "")
NoArg == <<>>

-----------------------------------------------------------------------------
\* The machine: processes of the script run one after the other

Init ==
  /\ pc = "shell"
  /\ mode = "none"
  /\ exit = "none"
  /\ runs = 0
  /\ argv = <<>>
  /\ TKINTER_AVAILABLE \in BOOLEAN
  /\ file \in {Absent} \cup {Present(c) : c \in UserFiles}
  /\ report = NoReport
  /\ apps = <<>>
  /\ formulae = <<>>
  /\ casks = <<>>
  /\ title = "none"
  /\ checkboxes = <<>>
  /\ toggles = 0
  /\ idx = 0
  /\ log = <<>>

\* os.path.isfile(filepath)
isfile(filepath) == filepath = InventoryPath /\ file.isfile

\* state of a freshly started process
Fresh ==
  /\ runs' = runs + 1
  /\ title' = "none"
  /\ checkboxes' = <<>>
  /\ toggles' = 0
  /\ idx' = 0

\* main() without --restore: run_index_mode with what the three collectors meet
run_index_mode(listing, rf, rc) ==
  LET installed_apps == get_installed_apps(listing)
      brew_formulae == get_brew_packages(rf)
      brew_casks == get_brew_casks(rc)
      seen == << Say("index_mode", NoArg), Ev("listdir", "app_dirs", listing, ""),
                 Ev("run", "list_formula", rf.stdout, rf.outcome) >>
  IN  /\ pc = "shell"
      /\ runs < MaxRuns
      /\ Fresh
      /\ mode' = "index"
      /\ argv' = <<>>
      /\ pc' = "shell"
      /\ apps' = <<>>
      /\ formulae' = <<>>
      /\ casks' = <<>>
      /\ UNCHANGED TKINTER_AVAILABLE
      /\ IF rf.outcome \notin {"ok"} \cup Caught
         THEN /\ exit' = "uncaught"
              /\ log' = seen
              /\ UNCHANGED <<file, report>>
         ELSE IF rc.outcome \notin {"ok"} \cup Caught
         THEN /\ exit' = "uncaught"
              /\ log' = seen \o <<Ev("run", "list_cask", rc.stdout, rc.outcome)>>
              /\ UNCHANGED <<file, report>>
         ELSE /\ exit' = "returned"
              /\ report' = [apps |-> installed_apps, formulae |-> brew_formulae,
                            casks |-> brew_casks]
              /\ file' = Present(write_report(installed_apps, brew_formulae, brew_casks))
              /\ log' = seen \o << Ev("run", "list_cask", rc.stdout, rc.outcome),
                                   Ev("open", "w", <<InventoryPath>>, ""),
                                   Say("report_saved", <<InventoryPath>>) >>

RunIndex == \E listing \in DirListings, rf \in BrewListResults, rc \in BrewListResults :
  run_index_mode(listing, rf, rc)

\* where run_restore_mode goes after the selection stage (lines 183, 195, 207)
AfterSelection(fs, cs) ==
  IF fs # <<>> THEN "install_formulae" ELSE IF cs # <<>> THEN "install_casks" ELSE "list_apps"

\* run_restore_mode without the check at line 140: open() raises on a path
\* that is no file
run_restore_mode_Unchecked(filepath) ==
  /\ pc = "shell"
  /\ runs < MaxRuns
  /\ Fresh
  /\ mode' = "restore"
  /\ argv' = <<filepath>>
  /\ UNCHANGED <<TKINTER_AVAILABLE, file, report>>
  /\ LET parsed == parse_file(file.content)
     IN  /\ log' = <<Say("parsing", <<filepath>>), Ev("open", "r", <<filepath>>, "")>>
         /\ apps' = parsed.apps
         /\ formulae' = parsed.formulae
         /\ casks' = parsed.casks
         /\ pc' = IF isfile(filepath) THEN "select_formulae" ELSE "shell"
         /\ exit' = IF isfile(filepath) THEN "none" ELSE "uncaught"

\* main() with --restore: run_restore_mode up to the end of parsing
run_restore_mode(filepath) ==
  /\ pc = "shell"
  /\ runs < MaxRuns
  /\ Fresh
  /\ mode' = "restore"
  /\ argv' = <<filepath>>
  /\ UNCHANGED <<TKINTER_AVAILABLE, file, report>>
  /\ IF ~isfile(filepath)
     THEN /\ log' = <<Say("file_not_found", <<filepath>>)>>
          /\ pc' = "shell"
          /\ exit' = "returned"
          /\ apps' = <<>>
          /\ formulae' = <<>>
          /\ casks' = <<>>
     ELSE LET parsed == parse_file(file.content)
          IN  /\ log' = <<Say("parsing", <<filepath>>), Ev("open", "r", <<filepath>>, "")>>
              /\ apps' = parsed.apps
              /\ formulae' = parsed.formulae
              /\ casks' = parsed.casks
              /\ pc' = "select_formulae"
              /\ exit' = "none"

RunRestore == \E filepath \in Paths : run_restore_mode(filepath)

\* select_items_with_tkinter failing closed: nothing is selected without Tkinter
select_items_with_tkinter_Closed(items) ==
  IF ~TKINTER_AVAILABLE \/ items = <<>>
  THEN [returned |-> TRUE, value |-> <<>>, vars |-> <<>>]
  ELSE [returned |-> FALSE, value |-> <<>>,
        vars |-> [k \in 1..Len(items) |-> <<items[k], TRUE>>]]

\* select_items_with_tkinter up to root.mainloop(): either it returns at once
\* (line 89) or the window is built with every BooleanVar set (lines 117-125)
select_items_with_tkinter(items) ==
  IF ~TKINTER_AVAILABLE \/ items = <<>>
  THEN [returned |-> TRUE, value |-> items, vars |-> <<>>]
  ELSE [returned |-> FALSE, value |-> <<>>,
        vars |-> [k \in 1..Len(items) |-> <<items[k], TRUE>>]]

\* run_restore_mode lines 174-176 and 179-181
SelectFormulae ==
  /\ pc = "select_formulae"
  /\ UNCHANGED <<mode, exit, runs, argv, TKINTER_AVAILABLE, file, report, apps, casks, toggles>>
  /\ IF TKINTER_AVAILABLE
     THEN IF formulae # <<>>
          THEN LET call == select_items_with_tkinter(formulae)
               IN  IF call.returned
                   THEN /\ formulae' = call.value
                        /\ pc' = "select_casks"
                        /\ UNCHANGED <<title, checkboxes, idx, log>>
                   ELSE /\ pc' = "mainloop"
                        /\ title' = "formulae"
                        /\ checkboxes' = call.vars
                        /\ log' = Append(log, Ev("window", "formulae", formulae, "open"))
                        /\ UNCHANGED <<formulae, idx>>
          ELSE /\ pc' = "select_casks"
               /\ UNCHANGED <<formulae, title, checkboxes, idx, log>>
     ELSE /\ log' = log \o (IF formulae # <<>> \/ casks # <<>>
                            THEN <<Say("note_no_tkinter", NoArg)>> ELSE <<>>)
          /\ pc' = AfterSelection(formulae, casks)
          /\ idx' = 1
          /\ UNCHANGED <<formulae, title, checkboxes>>

\* run_restore_mode lines 177-178
SelectCasks ==
  /\ pc = "select_casks"
  /\ UNCHANGED <<mode, exit, runs, argv, TKINTER_AVAILABLE, file, report, apps, formulae, toggles>>
  /\ IF casks # <<>>
     THEN LET call == select_items_with_tkinter(casks)
          IN  IF call.returned
              THEN /\ casks' = call.value
                   /\ pc' = AfterSelection(formulae, call.value)
                   /\ idx' = 1
                   /\ UNCHANGED <<title, checkboxes, log>>
              ELSE /\ pc' = "mainloop"
                   /\ title' = "casks"
                   /\ checkboxes' = call.vars
                   /\ log' = Append(log, Ev("window", "casks", casks, "open"))
                   /\ UNCHANGED <<casks, idx>>
     ELSE /\ pc' = AfterSelection(formulae, casks)
          /\ idx' = 1
          /\ UNCHANGED <<casks, title, checkboxes, log>>

\* the human clicks checkbox k of the open window
Toggle ==
  /\ pc = "mainloop"
  /\ toggles < MaxToggles
  /\ \E k \in 1..Len(checkboxes) :
       /\ checkboxes' = [checkboxes EXCEPT ![k] = <<@[1], ~@[2]>>]
       /\ log' = Append(log, Ev("click", title, <<k>>, ""))
  /\ toggles' = toggles + 1
  /\ UNCHANGED <<pc, mode, exit, runs, argv, TKINTER_AVAILABLE, file, report, apps, formulae,
                 casks, title, idx>>

\* on_ok without the var.get() filter
on_ok_All(vs) == [k \in 1..Len(vs) |-> vs[k][1]]

\* the OK button's command: what `selected` becomes
on_ok(vs) == SelectChecked(vs)

\* root.mainloop() has ended and select_items_with_tkinter returns `selected`
\* to the assignment at line 176 or 178
MainloopReturns(selected, how) ==
  /\ log' = Append(log, Ev("closed", title, selected, how))
  /\ title' = "none"
  /\ checkboxes' = <<>>
  /\ idx' = 1
  /\ IF title = "formulae"
     THEN /\ formulae' = selected
          /\ pc' = "select_casks"
          /\ UNCHANGED casks
     ELSE /\ casks' = selected
          /\ pc' = AfterSelection(formulae, selected)
          /\ UNCHANGED formulae
  /\ UNCHANGED <<mode, exit, runs, argv, TKINTER_AVAILABLE, file, report, apps, toggles>>

\* the human presses OK
OnOk ==
  /\ pc = "mainloop"
  /\ MainloopReturns(on_ok(checkboxes), "ok")

\* the human closes the window through the window manager: the root window is
\* destroyed, on_ok never ran and `selected` still holds line 90's []
DeleteWindow ==
  /\ pc = "mainloop"
  /\ MainloopReturns(<<>>, "delete")

\* a non-zero exit ends the run like a missing tool
HandleInstall_AbortOnFailure(outcome) ==
  IF outcome = "ok" THEN "continue"
  ELSE IF outcome \in Caught THEN "abort"
  ELSE "propagate"

\* a missing tool is logged like a non-zero exit and the loop goes on
HandleInstall_ContinueOnMissing(outcome) ==
  IF outcome = "ok" THEN "continue"
  ELSE IF outcome \in Caught THEN "log_continue"
  ELSE "propagate"

\* what the try block around an install does with the outcome of subprocess.run
HandleInstall(outcome) ==
  IF outcome = "ok" THEN "continue"
  ELSE IF outcome = "CalledProcessError" THEN "log_continue"
  ELSE IF outcome = "FileNotFoundError" THEN "abort"
  ELSE "propagate"

\* one iteration of an install loop over items, `what` being the command run
InstallStep(what, items, after) ==
  \E outcome \in RunOutcomes :
    LET item == items[idx]
        h == HandleInstall(outcome)
        head == IF idx = 1 THEN <<Say("installing_header", NoArg)>> ELSE <<>>
        tail == IF h = "log_continue" THEN <<Say("failed", item)>>
                ELSE IF h = "abort" THEN <<Say("brew_not_found", NoArg)>>
                ELSE <<>>
    IN  /\ log' = log \o head
                    \o <<Say("installing", item), Ev("run", what, item, outcome)>> \o tail
        /\ IF h \in {"continue", "log_continue"}
           THEN /\ exit' = exit
                /\ IF idx < Len(items)
                   THEN /\ idx' = idx + 1
                        /\ pc' = pc
                   ELSE /\ idx' = 1
                        /\ pc' = after
           ELSE /\ pc' = "shell"
                /\ exit' = IF h = "abort" THEN "returned" ELSE "uncaught"
                /\ idx' = idx
        /\ UNCHANGED <<mode, runs, argv, TKINTER_AVAILABLE, file, report, apps, formulae, casks,
                       title, checkboxes, toggles>>

\* run_restore_mode lines 183-193
InstallFormula ==
  /\ pc = "install_formulae"
  /\ InstallStep("install", formulae, IF casks # <<>> THEN "install_casks" ELSE "list_apps")

\* run_restore_mode lines 195-205
InstallCask ==
  /\ pc = "install_casks"
  /\ InstallStep("install_cask", casks, "list_apps")

\* run_restore_mode lines 207-214
ListApps ==
  /\ pc = "list_apps"
  /\ log' = log \o (IF apps # <<>>
                    THEN <<Say("manual_header", NoArg)>>
                           \o [k \in 1..Len(apps) |-> Say("manual_app", apps[k])]
                    ELSE <<>>)
                \o <<Say("complete", NoArg)>>
  /\ pc' = "shell"
  /\ exit' = "returned"
  /\ UNCHANGED <<mode, runs, argv, TKINTER_AVAILABLE, file, report, apps, formulae, casks, title,
                 checkboxes, toggles, idx>>

Next ==
  \/ RunIndex
  \/ RunRestore
  \/ SelectFormulae
  \/ SelectCasks
  \/ Toggle
  \/ OnOk
  \/ DeleteWindow
  \/ InstallFormula
  \/ InstallCask
  \/ ListApps

Spec == Init /\ [][Next]_vars


-----------------------------------------------------------------------------
\* The serializer and the parser on their own: a report drawn from bounded
\* sets is written by the with-block of run_index_mode and read back by the
\* loop of run_restore_mode

AppNames == { <<"a">>, <<"b">>, <<"N", "o", " ", "x">> }
FormulaNames ==
  { <<"a">>, <<"b">>, <<>>, <<" ", "a">>, <<"#", "#", "#", "a">>, <<"a", NL, "b">> }
CaskNames == { <<"c">>, <<"N", "o", " ", "x">> }

\* the lists of at most n members of S
RECURSIVE ListsUpTo(_, _)
ListsUpTo(S, n) ==
  IF n = 0 THEN {<<>>}
  ELSE LET shorter == ListsUpTo(S, n - 1)
       IN  shorter \cup {Append(l, x) : l \in {m \in shorter : Len(m) = n - 1}, x \in S}

\* application lists are what sorted(list(set(apps))) returns
Reports ==
  [apps : {sorted(S) : S \in SUBSET AppNames},
   formulae : ListsUpTo(FormulaNames, MaxNames),
   casks : ListsUpTo(CaskNames, MaxNames)]

\* the variables the serializer and the parser do not touch
Unused ==
  /\ mode = "none"
  /\ exit = "none"
  /\ runs = 0
  /\ argv = <<>>
  /\ TKINTER_AVAILABLE = FALSE
  /\ title = "none"
  /\ checkboxes = <<>>
  /\ toggles = 0
  /\ idx = 0
  /\ log = <<>>

InitRoundTrip ==
  /\ pc = "report"
  /\ report \in Reports
  /\ file = Absent
  /\ apps = <<>>
  /\ formulae = <<>>
  /\ casks = <<>>
  /\ Unused

\* run_index_mode lines 59-79 on the drawn report
WriteReport ==
  /\ pc = "report"
  /\ file' = Present(write_report(report.apps, report.formulae, report.casks))
  /\ pc' = "written"
  /\ UNCHANGED <<mode, exit, runs, argv, TKINTER_AVAILABLE, report, apps, formulae, casks, title,
                 checkboxes, toggles, idx, log>>

\* run_restore_mode lines 145-171 on the file
ParseReport ==
  /\ pc = "written"
  /\ LET parsed == parse_file(file.content)
     IN  /\ apps' = parsed.apps
         /\ formulae' = parsed.formulae
         /\ casks' = parsed.casks
  /\ pc' = "parsed"
  /\ UNCHANGED <<mode, exit, runs, argv, TKINTER_AVAILABLE, file, report, title, checkboxes,
                 toggles, idx, log>>

NextRoundTrip ==
  \/ WriteReport
  \/ ParseReport

SpecRoundTrip == InitRoundTrip /\ [][NextRoundTrip]_vars

\* The parser on files drawn line by line
junk_header == <<"#", "#", "#", " ", "x">>
LineKinds ==
  { HeaderApps, HeaderFormulae, <<" ">> \o HeaderCasks, junk_header, <<>>,
    <<" ", "a", " ">>, <<"N", "o", " ", "a">> }

LineFiles == {write_each(ls) : ls \in ListsUpTo(LineKinds, MaxFileLines)}

InitParser ==
  /\ pc = "written"
  /\ report = NoReport
  /\ file \in {Present(c) : c \in LineFiles}
  /\ apps = <<>>
  /\ formulae = <<>>
  /\ casks = <<>>
  /\ Unused

NextParser == ParseReport

SpecParser == InitParser /\ [][NextParser]_vars


-----------------------------------------------------------------------------
\* Reading the log

IsInstall(e) == e.ev = "run" /\ e.what \in {"install", "install_cask"}

\* the install invocations of the process so far, in order
Invocations == SelectSeq(log, IsInstall)

\* <<command, name>> of every member of fs under "brew install", then of every
\* member of cs under "brew install --cask"
Batch(fs, cs) ==
  [k \in 1..Len(fs) |-> <<"install", fs[k]>>] \o [k \in 1..Len(cs) |-> <<"install_cask", cs[k]>>]

\* the invocations made so far are the first ones of the batch, in its order
FollowsBatch(fs, cs) ==
  /\ Len(Invocations) <= Len(fs) + Len(cs)
  /\ \A k \in 1..Len(Invocations) :
       <<Invocations[k].what, Invocations[k].arg>> = Batch(fs, cs)[k]

\* every invocation so far found the tool and ran it
ToolPresent == \A k \in 1..Len(Invocations) : Invocations[k].res \in {"ok", "CalledProcessError"}

Said(what) == \E k \in 1..Len(log) : log[k].ev = "print" /\ log[k].what = what

\* the process has ended
Ended == pc = "shell" /\ exit # "none"

\* the restore process was given a regular file and parsed it
PastParsing == mode = "restore" /\ Said("parsing")

\* C2: in a restore run where brew is present, whatever installs exit non-zero,
\* the install invocations are the selected formulae in list order followed by
\* the selected casks in list order, each attempted once; every non-zero exit
\* is reported as a failure of that item right after it and nothing else is
\* reported as failed; no cask is attempted before all formulae were.
C2_BestEffortBatch ==
  (mode = "restore" /\ ToolPresent) =>
    /\ FollowsBatch(formulae, casks)
    /\ Ended => Len(Invocations) = Len(formulae) + Len(casks)
    /\ Ended => exit = "returned"
    /\ \A k \in 1..Len(log) :
         (IsInstall(log[k]) /\ log[k].res = "CalledProcessError") =>
           /\ k < Len(log)
           /\ log[k + 1].ev = "print" /\ log[k + 1].what = "failed"
           /\ log[k + 1].arg = log[k].arg
    /\ \A k \in 1..Len(log) :
         (log[k].ev = "print" /\ log[k].what = "failed") =>
           /\ k > 1
           /\ IsInstall(log[k - 1]) /\ log[k - 1].res = "CalledProcessError"
    /\ \A j, k \in 1..Len(Invocations) :
         (Invocations[j].what = "install_cask" /\ Invocations[k].what = "install") => k < j

\* C2 witness: a finished run in which the second of three formulae failed,
\* the third was still attempted and the casks followed
C2_Witness ==
  /\ mode = "restore" /\ ToolPresent /\ Ended
  /\ Len(formulae) = 3 /\ Len(casks) = 2
  /\ Len(Invocations) = 5
  /\ Invocations[1].res = "ok"
  /\ Invocations[2].res = "CalledProcessError"
  /\ Invocations[3].res = "ok"
  /\ Invocations[4].what = "install_cask"

\* C4: an install that finds brew absent prints the error, is the last install
\* invocation of the run and the run returns normally; a non-zero exit never
\* ends the batch: after it the next item of the batch is attempted.
C4_ToolMissingAbort ==
  mode = "restore" =>
    /\ \A k \in 1..Len(log) :
         (IsInstall(log[k]) /\ log[k].res = "FileNotFoundError") =>
           /\ Len(log) = k + 1
           /\ log[k + 1].ev = "print" /\ log[k + 1].what = "brew_not_found"
           /\ pc = "shell" /\ exit = "returned"
    /\ \A k \in 1..Len(Invocations) :
         (Invocations[k].res = "CalledProcessError" /\ Ended) =>
           \/ k < Len(Invocations)
           \/ k = Len(formulae) + Len(casks)

\* C4 witness: brew vanished after the first formula failed with a non-zero
\* exit, with formulae and casks still to install
C4_Witness ==
  /\ mode = "restore" /\ Ended
  /\ Len(formulae) = 3 /\ Len(casks) = 2
  /\ Len(Invocations) = 2
  /\ Invocations[1].res = "CalledProcessError"
  /\ Invocations[2].res = "FileNotFoundError"

\* C5: a restore run whose path is not a regular file prints the not-found
\* message and returns; it does nothing else: no open, no selection window,
\* no install, no application list, no completion message.
C5_MissingFile ==
  (mode = "restore" /\ ~isfile(argv[1])) =>
    /\ log = <<Say("file_not_found", argv)>>
    /\ pc = "shell" /\ exit = "returned"
    /\ apps = <<>> /\ formulae = <<>> /\ casks = <<>>
    /\ title = "none" /\ checkboxes = <<>>

\* C5 witness: restore was pointed at a path that does not exist while an
\* inventory with packages is on disk
C5_Witness ==
  /\ mode = "restore" /\ ~isfile(argv[1]) /\ Ended
  /\ file.isfile /\ parse_file(file.content).formulae # <<>>


\* the names printed in the manual-action list, in print order
ManualList ==
  LET lines == SelectSeq(log, LAMBDA e : e.ev = "print" /\ e.what = "manual_app")
  IN  [k \in 1..Len(lines) |-> lines[k].arg]

\* position of the last install invocation in the log, 0 when there is none
LastInstall ==
  IF \E k \in 1..Len(log) : IsInstall(log[k])
  THEN CHOOSE k \in 1..Len(log) : IsInstall(log[k]) /\ \A j \in (k + 1)..Len(log) : ~IsInstall(log[j])
  ELSE 0

\* the run ended by returning from run_restore_mode, its install loops
\* completed or cut short by brew being absent
ReturnedAfterInstalls == PastParsing /\ Ended /\ exit = "returned"

\* C3: in every restore run that gets past parsing and has parsed
\* applications, the manual-action list of the applications is printed in
\* parsed order after both package categories finished, whether they completed
\* or were aborted because brew is absent; and install invocations take their
\* names from the selected formulae and casks only, never from the
\* applications section.
C3_ApplicationsListedLast ==
  /\ (ReturnedAfterInstalls /\ apps # <<>>) =>
       /\ ManualList = apps
       /\ \A k \in 1..Len(log) :
            (log[k].ev = "print" /\ log[k].what = "manual_app") => k > LastInstall
  /\ PastParsing => FollowsBatch(formulae, casks)

\* C8: whatever an install invocation does (success, non-zero exit, tool
\* absent, any other failure to spawn or run brew), the restore run ends by
\* returning normally after a message, never by an exception leaving
\* run_restore_mode.
C8_NoFaultEscapes ==
  (mode = "restore" /\ Ended) =>
    /\ exit = "returned"
    /\ log[Len(log)].ev = "print"

\* the section bodies of the file index mode wrote
AppsBodyIs(body) ==
  startswith(file.content, HeaderApps \o <<NL>> \o body \o <<NL>> \o HeaderFormulae \o <<NL>>)
FormulaeBodyIs(body) ==
  contains(file.content,
           <<NL>> \o HeaderFormulae \o <<NL>> \o body \o <<NL>> \o HeaderCasks \o <<NL>>)
CasksBodyIs(body) ==
  endswith(file.content, <<NL>> \o HeaderCasks \o <<NL>> \o body)

\* what the index run met: the directory states and the two brew list results
SeenListing == log[2].arg
SeenList(what) ==
  LET k == CHOOSE k \in 1..Len(log) : log[k].ev = "run" /\ log[k].what = what
  IN  log[k]

\* no entry of an existing application directory is a bundle
NoBundles ==
  \A d \in 1..Len(SeenListing) :
    SeenListing[d].isdir => \A e \in SeenListing[d].entries : ~endswith(e, DotApp)

\* brew is absent, its list command failed, or it listed no package
NoPackages(what) ==
  \/ SeenList(what).res \in {"FileNotFoundError", "CalledProcessError"}
  \/ SeenList(what).res = "ok" /\ strip(SeenList(what).arg) = <<>>

\* C7: for each of the three sections, when index mode has zero entries for it
\* (no bundle found; brew absent, its list command failing, or listing no
\* package of the category), the body written for the section is exactly the
\* section's sentinel line, and parsing the file yields an empty list for it.
C7_SentinelHandling ==
  (mode = "index" /\ Ended /\ exit = "returned") =>
    /\ NoBundles =>
         AppsBodyIs(SentinelApps \o <<NL>>) /\ parse_file(file.content).apps = <<>>
    /\ NoPackages("list_formula") =>
         FormulaeBodyIs(SentinelFormulae \o <<NL>>) /\ parse_file(file.content).formulae = <<>>
    /\ NoPackages("list_cask") =>
         CasksBodyIs(SentinelCasks \o <<NL>>) /\ parse_file(file.content).casks = <<>>


\* lists select_items_with_tkinter is tried on
SelectionLists == ListsUpTo(CaskNames, MaxNames)

\* number of times the advisory about the missing Tkinter was printed
NoteCount ==
  Cardinality({k \in 1..Len(log) : log[k].ev = "print" /\ log[k].what = "note_no_tkinter"})

\* without Tkinter, or on an empty list, select_items_with_tkinter returns its
\* argument at once
SelectFailsOpen ==
  \A L \in SelectionLists :
    (~TKINTER_AVAILABLE \/ L = <<>>) =>
      /\ select_items_with_tkinter(L).returned
      /\ select_items_with_tkinter(L).value = L

\* C6 as stated: without Tkinter (or on an empty list) select returns its
\* list unchanged; and a restore run without Tkinter attempts to install every
\* parsed formula and every parsed cask and prints the advisory exactly once.
C6_FailOpenAsStated ==
  /\ SelectFailsOpen
  /\ (ReturnedAfterInstalls /\ ~TKINTER_AVAILABLE) =>
       LET p == parse_file(file.content)
       IN  /\ FollowsBatch(p.formulae, p.casks)
           /\ Len(Invocations) = Len(p.formulae) + Len(p.casks)
           /\ NoteCount = 1

\* C6 (amended): without Tkinter (or on an empty list) select returns its list
\* unchanged; in a restore run without Tkinter that gets past parsing no
\* window is opened, the lists handed to the install loops are the parsed
\* formulae and casks, the install invocations follow them in order and cover
\* all of them when the run reaches its completion message, and the advisory
\* is printed once when one of the two parsed lists is non-empty and not at
\* all when both are empty.
C6_FailOpen ==
  /\ SelectFailsOpen
  /\ (PastParsing /\ ~TKINTER_AVAILABLE) =>
       LET p == parse_file(file.content)
       IN  /\ formulae = p.formulae
           /\ casks = p.casks
           /\ FollowsBatch(p.formulae, p.casks)
           /\ Said("complete") => Len(Invocations) = Len(p.formulae) + Len(p.casks)
           /\ \A k \in 1..Len(log) : log[k].ev \notin {"window", "click", "closed"}
           /\ NoteCount = IF pc = "select_formulae" THEN 0
                          ELSE IF p.formulae # <<>> \/ p.casks # <<>> THEN 1 ELSE 0
           /\ NoteCount = 1 => log[3].what = "note_no_tkinter"

\* C6 witness: a run without Tkinter installed all five parsed packages after
\* one advisory
C6_Witness ==
  /\ PastParsing /\ ~TKINTER_AVAILABLE /\ Said("complete")
  /\ Len(parse_file(file.content).formulae) = 3
  /\ Len(Invocations) = 5
  /\ NoteCount = 1

\* the window event that opened the selection window which is open just
\* before position c of the log
OpenedAt(c) ==
  CHOOSE o \in 1..(c - 1) :
    log[o].ev = "window" /\ \A j \in (o + 1)..(c - 1) : log[j].ev # "window"

\* checkbox k is checked at position c: it was clicked an even number of
\* times since the window opened
StillChecked(c, k) ==
  Cardinality({j \in (OpenedAt(c) + 1)..(c - 1) :
                 log[j].ev = "click" /\ log[j].arg = <<k>>}) % 2 = 0

\* the candidates of the window that are checked at position c, in order
CheckedAt(c) ==
  LET cand == log[OpenedAt(c)].arg
      keep[k \in 0..Len(cand)] ==
        IF k = 0 THEN <<>>
        ELSE keep[k - 1] \o (IF StillChecked(c, k) THEN <<cand[k]>> ELSE <<>>)
  IN  keep[Len(cand)]

\* what the window for the list returned, <<>> when there was no window
Returned(what) ==
  IF \E k \in 1..Len(log) : log[k].ev = "closed" /\ log[k].what = what
  THEN log[CHOOSE k \in 1..Len(log) : log[k].ev = "closed" /\ log[k].what = what].arg
  ELSE <<>>

\* what holds of the selection window however it is closed: a window is
\* opened only with Tkinter on a non-empty list, its checkboxes are the
\* candidates, each checked unless clicked an odd number of times, nothing is
\* installed while it is open, and only returned names are installed
GateProtocol ==
  /\ \A k \in 1..Len(log) :
       log[k].ev = "window" => (TKINTER_AVAILABLE /\ log[k].arg # <<>>)
  /\ pc = "mainloop" <=>
       (\E o \in 1..Len(log) :
          log[o].ev = "window" /\ \A j \in (o + 1)..Len(log) : log[j].ev = "click")
  /\ pc = "mainloop" =>
       LET cand == log[OpenedAt(Len(log) + 1)].arg
       IN  /\ Len(checkboxes) = Len(cand)
           /\ \A k \in 1..Len(cand) :
                checkboxes[k] = <<cand[k], StillChecked(Len(log) + 1, k)>>
  /\ (PastParsing /\ TKINTER_AVAILABLE) =>
       FollowsBatch(Returned("formulae"), Returned("casks"))

\* C9 as stated: the value the selection returns is the candidates still
\* checked when the human closes the window, however it is closed.
C9_SelectionGateAsStated ==
  /\ GateProtocol
  /\ \A c \in 1..Len(log) : log[c].ev = "closed" => log[c].arg = CheckedAt(c)

\* C9 (amended): with Tkinter and a non-empty candidate list every candidate
\* starts checked, the restore flow waits until the window is closed, and the
\* value returned is the candidates still checked, unmodified, duplicates
\* kept, when the human closes the window with OK; a window closed any other
\* way returns the empty list. Pressing OK without a click returns the whole
\* list, and only returned names are installed.
C9_SelectionGate ==
  /\ GateProtocol
  /\ \A c \in 1..Len(log) :
       log[c].ev = "closed" =>
         log[c].arg = IF log[c].res = "ok" THEN CheckedAt(c) ELSE <<>>

\* C9 witness: of the duplicate candidates a, a one was unchecked, OK returned
\* the other and it was installed
C9_Witness ==
  /\ PastParsing /\ Ended
  /\ \E c \in 1..Len(log) :
       /\ log[c].ev = "closed" /\ log[c].what = "formulae" /\ log[c].res = "ok"
       /\ log[OpenedAt(c)].arg = << <<"a">>, <<"a">> >>
       /\ log[c].arg = << <<"a">> >>
  /\ Len(Invocations) = 1


-----------------------------------------------------------------------------
\* Properties of the serializer and the parser (SpecRoundTrip, SpecParser)

SentinelPrefixed(n) == startswith(n, PrefixNo) \/ startswith(n, PrefixHomebrewNotFound)

\* no member twice
DuplicateFree(l) == \A j, k \in 1..Len(l) : l[j] = l[k] => j = k

\* in the order sorted() gives
IsSorted(l) == \A k \in 1..(Len(l) - 1) : str_less(l[k], l[k + 1]) \/ l[k] = l[k + 1]

\* a name that is one trimmed, non-empty line and looks like neither a header
\* nor a sentinel
PlainName(n) ==
  /\ n # <<>>
  /\ strip(n) = n
  /\ \A k \in 1..Len(n) : n[k] # NL
  /\ ~startswith(n, HeaderPrefix)
  /\ ~SentinelPrefixed(n)

\* the parsed lists are the lists of the report
ReadBack == apps = report.apps /\ formulae = report.formulae /\ casks = report.casks

\* C1 as stated: a report with a non-empty, duplicate-free, sorted application
\* list and any package names not starting with a sentinel prefix is read
\* back exactly after being written.
C1_RoundTripAsStated ==
  ( /\ pc = "parsed"
    /\ report.apps # <<>> /\ DuplicateFree(report.apps) /\ IsSorted(report.apps)
    /\ \A n \in Range(report.formulae) \cup Range(report.casks) : ~SentinelPrefixed(n) )
  => ReadBack

\* C1 (amended): a report with a non-empty, duplicate-free, sorted application
\* list is read back exactly after being written when every name in its three
\* lists is a non-empty single line without leading or trailing whitespace
\* that starts with neither "###" nor a sentinel prefix.
C1_RoundTrip ==
  ( /\ pc = "parsed"
    /\ report.apps # <<>> /\ DuplicateFree(report.apps) /\ IsSorted(report.apps)
    /\ \A n \in Range(report.apps) \cup Range(report.formulae) \cup Range(report.casks) :
         PlainName(n) )
  => ReadBack

\* C1 witness: two applications, two different formulae and a cask came back
C1_Witness ==
  /\ pc = "parsed"
  /\ report.apps = << <<"a">>, <<"b">> >>
  /\ report.formulae = << <<"b">>, <<"a">> >>
  /\ report.casks = << <<"c">> >>
  /\ ReadBack

\* the stripped lines of the file
Lines ==
  LET raw == readlines(file.content)
  IN  [k \in 1..Len(raw) |-> strip(raw[k])]

\* a line that starts with "###"
IsHeaderLine(l) == startswith(l, HeaderPrefix)

\* the section a "###" line names: the first marker it contains, if any
Names(l, section) ==
  /\ IsHeaderLine(l)
  /\ \/ section = "apps" /\ contains(l, MarkerApps)
     \/ section = "formulae" /\ ~contains(l, MarkerApps) /\ contains(l, MarkerFormulae)
     \/ section = "casks" /\ ~contains(l, MarkerApps) /\ ~contains(l, MarkerFormulae)
          /\ contains(l, MarkerCasks)

NamesASection(l) == \E section \in {"apps", "formulae", "casks"} : Names(l, section)

\* a line that is neither blank, nor a "###" line, nor a sentinel
IsNameLine(l) == l # <<>> /\ ~IsHeaderLine(l) /\ ~SentinelPrefixed(l)

\* the name lines of ls, from the k-th on, whose governing line names the
\* section; the governing line of a line is the last "###" line before it
\* (any = TRUE) or the last "###" line before it that names a section
RECURSIVE Under(_, _, _, _)
Under(ls, k, section, any) ==
  IF k > Len(ls) THEN <<>>
  ELSE LET before == {j \in 1..(k - 1) :
                        IF any THEN IsHeaderLine(ls[j]) ELSE NamesASection(ls[j])}
           last == CHOOSE j \in before : \A i \in before : i <= j
       IN  (IF IsNameLine(ls[k]) /\ before # {} /\ Names(ls[last], section)
            THEN <<ls[k]>> ELSE <<>>)
             \o Under(ls, k + 1, section, any)

\* the blocks of a file that starts with a header naming a section: each
\* such header with the lines up to the next one
BlockStarts(ls) == {k \in 1..Len(ls) : NamesASection(ls[k])}
Block(ls, k) ==
  LET later == {j \in BlockStarts(ls) : j > k}
      stop == IF later = {} THEN Len(ls) + 1 ELSE CHOOSE j \in later : \A i \in later : j <= i
  IN  SubSeq(ls, k, stop - 1)

\* the file is three blocks, one per section
ThreeSections(ls) ==
  /\ Cardinality(BlockStarts(ls)) = 3
  /\ 1 \in BlockStarts(ls)
  /\ \A section \in {"apps", "formulae", "casks"} :
       \E k \in BlockStarts(ls) : Names(ls[k], section)

\* parsing does not depend on the order of the three blocks
OrderIndependent ==
  LET ls == Lines
  IN  ThreeSections(ls) =>
        \A x, y, z \in BlockStarts(ls) :
          (x # y /\ y # z /\ x # z) =>
            LET parsed == parse_lines(ParseStart, Block(ls, x) \o Block(ls, y) \o Block(ls, z))
            IN  parsed.apps = apps /\ parsed.formulae = formulae /\ parsed.casks = casks

\* no "###" line is stored as a name
NoHeaderStored ==
  \A n \in Range(apps) \cup Range(formulae) \cup Range(casks) : ~IsHeaderLine(n)

\* C10 as stated: every non-blank, non-header, non-sentinel line is appended
\* to the list of the section named by the most recent header line before it,
\* and to no other; lines before any header are ignored; the result does not
\* depend on the order of the sections; no header is stored as a name.
C10_SectionTrackingAsStated ==
  pc = "parsed" =>
    LET ls == Lines
    IN  /\ apps = Under(ls, 1, "apps", TRUE)
        /\ formulae = Under(ls, 1, "formulae", TRUE)
        /\ casks = Under(ls, 1, "casks", TRUE)
        /\ OrderIndependent
        /\ NoHeaderStored

\* C10 (amended): every "###" line is skipped and never stored, and it changes
\* the current section only when it contains a section marker; every other
\* non-blank, non-sentinel line is appended to the list of the section named
\* by the most recent "###" line before it that contains a section marker, and
\* to no other; lines before any such header are ignored; the result does not
\* depend on the order of the three sections.
C10_SectionTracking ==
  pc = "parsed" =>
    LET ls == Lines
    IN  /\ apps = Under(ls, 1, "apps", FALSE)
        /\ formulae = Under(ls, 1, "formulae", FALSE)
        /\ casks = Under(ls, 1, "casks", FALSE)
        /\ OrderIndependent
        /\ NoHeaderStored

\* C10 witness: casks before formulae, names in both, and a name that follows
\* a "###" line naming no section
C10_Witness ==
  /\ pc = "parsed"
  /\ Lines = <<HeaderCasks, <<"a">>, HeaderFormulae, junk_header, <<"a">>>>
  /\ casks = << <<"a">> >>
  /\ formulae = << <<"a">> >>

====
